---- MODULE Spec2Model ----
(***************************************************************************)
(* Model of server.js: the portfolio calculator service.                   *)
(*                                                                         *)
(* POST /api/portfolio is an async handler.  Its code runs without         *)
(* interruption between two awaits, so one action of the model is one such *)
(* segment: the one that starts when the request arrives (PostPortfolio),  *)
(* when getStockPrice comes back (LookupReturn), when loadHistory comes    *)
(* back (LoadReturn) and when saveHistory comes back (SaveReturn).  The    *)
(* file is read at the instant of LoadReturn and written at the instant of *)
(* SaveReturn; handlers of other requests run between these segments.      *)
(*                                                                         *)
(* JavaScript values are tagged records: a string is a sequence of chunks  *)
(* (characters, or longer pieces of fixed text), a number is an integer    *)
(* counted in 1/Scale or NaN.  toUpperCase, parseFloat, toFixed,           *)
(* JSON.stringify and JSON.parse are computed on them.  Binary floating    *)
(* point is not modelled: the prices of the model times its quantities    *)
(* never lie half way between two hundredths, where toFixed(2) depends on  *)
(* the binary representation.                                              *)
(*                                                                         *)
(* Specifications:                                                         *)
(*   Spec      one request with any body over ItemKinds, any provider      *)
(*             reply, any outcome of the write; the file starts absent     *)
(*   SpecRace  two requests in flight at once                              *)
(*   SpecCap   one request after the other until the history is full       *)
(*   SpecFile  one request, the file starting in any of FileStates         *)
(***************************************************************************)
EXTENDS Integers, Sequences, FiniteSets, TLC

\* ------------------------------------------------------------------------
\* Bounds of the model
\* ------------------------------------------------------------------------

\* longest `stocks` array of a request body
MaxItems == 2
\* the clock (milliseconds since the epoch) ticks up to MaxClock times while
\* requests are in flight
MaxClock == 1
\* requests of one behaviour of the specification that fills the history
MaxCapRequests == 52

\* ------------------------------------------------------------------------
\* JavaScript values
\* ------------------------------------------------------------------------

\* numbers are counted in thousandths: Num(1004) is 1.004
Scale == 1000

Undef == [t |-> "undefined", s |-> <<>>, n |-> 0]
Null == [t |-> "null", s |-> <<>>, n |-> 0]
Str(chunks) == [t |-> "string", s |-> chunks, n |-> 0]
Num(k) == [t |-> "number", s |-> <<>>, n |-> k]
NaN == [t |-> "number", s |-> <<"NaN">>, n |-> 0]

IsNaN(v) == v.t = "number" /\ v.s # <<>>

\* !v is FALSE
Truthy(v) ==
    CASE v.t = "string" -> v.s # <<>>
      [] v.t = "number" -> ~IsNaN(v) /\ v.n # 0
      [] OTHER -> FALSE

DigitChars == <<"0", "1", "2", "3", "4", "5", "6", "7", "8", "9">>
Digit(d) == DigitChars[d + 1]
IsDigit(c) == \E d \in 0..9 : DigitChars[d + 1] = c
DigitValue(c) == CHOOSE d \in 0..9 : DigitChars[d + 1] = c

RECURSIVE IntDigits(_)
\* the decimal digits of a natural number
IntDigits(k) == IF k < 10 THEN <<Digit(k)>> ELSE IntDigits(k \div 10) \o <<Digit(k % 10)>>

RECURSIVE LeadingDigits(_)
\* the longest prefix of digits
LeadingDigits(cs) ==
    IF cs # <<>> /\ IsDigit(Head(cs)) THEN <<Head(cs)>> \o LeadingDigits(Tail(cs)) ELSE <<>>

RECURSIVE DigitsValue(_)
DigitsValue(ds) ==
    IF ds = <<>> THEN 0 ELSE 10 * DigitsValue(SubSeq(ds, 1, Len(ds) - 1)) + DigitValue(ds[Len(ds)])

\* the first three decimals of a fraction, as thousandths
FractionValue(ds) ==
    100 * (IF Len(ds) >= 1 THEN DigitValue(ds[1]) ELSE 0)
    + 10 * (IF Len(ds) >= 2 THEN DigitValue(ds[2]) ELSE 0)
    + (IF Len(ds) >= 3 THEN DigitValue(ds[3]) ELSE 0)

\* parseFloat(string): the longest numeric prefix, NaN when there is none
parseFloat(cs) ==
    LET neg == cs # <<>> /\ Head(cs) = "-"
        body == IF neg THEN Tail(cs) ELSE cs
        int == LeadingDigits(body)
        rest == SubSeq(body, Len(int) + 1, Len(body))
        frac == IF rest # <<>> /\ Head(rest) = "." THEN LeadingDigits(Tail(rest)) ELSE <<>>
        mag == Scale * DigitsValue(int) + FractionValue(frac)
    IN  IF int = <<>> /\ frac = <<>> THEN NaN
        ELSE Num(IF neg THEN 0 - mag ELSE mag)

\* number.toFixed(2): rounded to the nearest hundredth (no value of the model
\* lies half way between two hundredths)
toFixed2(v) ==
    IF IsNaN(v) THEN <<"NaN">>
    ELSE LET mag == IF v.n < 0 THEN 0 - v.n ELSE v.n
             cents == (mag + 5) \div 10
             sign == IF v.n < 0 /\ cents > 0 THEN <<"-">> ELSE <<>>
         IN  sign \o IntDigits(cents \div 100) \o <<".">>
                  \o <<Digit((cents \div 10) % 10), Digit(cents % 10)>>

\* a * b
Times(a, b) == IF IsNaN(a) \/ IsNaN(b) THEN NaN ELSE Num((a.n * b.n) \div Scale)
\* a + b
Plus(a, b) == IF IsNaN(a) \/ IsNaN(b) THEN NaN ELSE Num(a.n + b.n)

\* ToNumber of the values a quantity takes
ToNumber(v) ==
    CASE v.t = "number" -> v
      [] v.t = "null" -> Num(0)
      [] v.t = "string" -> IF v.s = <<>> THEN Num(0) ELSE parseFloat(v.s)
      [] OTHER -> NaN

\* v <= 0
LessEqZero(v) == LET k == ToNumber(v) IN ~IsNaN(k) /\ k.n <= 0

UpperChar(c) ==
    CASE c = "a" -> "A"
      [] c = "b" -> "B"
      [] OTHER -> c

\* string.toUpperCase()
toUpperCase(cs) == [i \in 1..Len(cs) |-> UpperChar(cs[i])]

\* ------------------------------------------------------------------------
\* JSON text.  A value's text is [k, text, items]: a string literal, a number
\* literal (its digits), null, or an array of object texts.  An object's text
\* is the sequence of its properties, [key, val], in insertion order.
\* ------------------------------------------------------------------------

\* the literal JSON.stringify writes for a finite number
NumberToString(k) ==
    LET mag == IF k < 0 THEN 0 - k ELSE k
        frac == mag % Scale
        f3 == <<Digit(frac \div 100), Digit((frac \div 10) % 10), Digit(frac % 10)>>
        fs == IF frac % 10 # 0 THEN f3
              ELSE IF frac % 100 # 0 THEN SubSeq(f3, 1, 2) ELSE SubSeq(f3, 1, 1)
    IN  (IF k < 0 THEN <<"-">> ELSE <<>>) \o IntDigits(mag \div Scale)
        \o (IF frac = 0 THEN <<>> ELSE <<".">> \o fs)

JsonNull == [k |-> "null", text |-> <<"null">>, items |-> <<>>]
JsonArray(objs) == [k |-> "array", text |-> <<>>, items |-> objs]

\* JSON.stringify of a primitive: NaN is written as null
StringifyValue(v) ==
    CASE v.t = "string" -> [k |-> "string", text |-> v.s, items |-> <<>>]
      [] v.t = "number" /\ ~IsNaN(v) -> [k |-> "number", text |-> NumberToString(v.n), items |-> <<>>]
      [] OTHER -> JsonNull

\* JSON.parse of a primitive's text
ParseValue(j) ==
    CASE j.k = "string" -> Str(j.text)
      [] j.k = "number" -> parseFloat(j.text)
      [] OTHER -> Null

\* JSON.stringify of an object of primitives: a property whose value is
\* undefined is left out
StringifyProps(keys, obj) ==
    LET Present(key) == obj[key].t # "undefined"
        ks == SelectSeq(keys, Present)
    IN  [i \in 1..Len(ks) |-> [key |-> ks[i], val |-> StringifyValue(obj[ks[i]])]]

HasKey(props, key) == \E i \in 1..Len(props) : props[i].key = key
Prop(props, key) == props[CHOOSE i \in 1..Len(props) : props[i].key = key].val
\* obj.key of a parsed object: undefined when the text has no such property
ParseProp(props, key) == IF HasKey(props, key) THEN ParseValue(Prop(props, key)) ELSE Undef

ResultKeys == <<"symbol", "quantity", "currentPrice", "totalValue", "error">>

StringifyResult(r) == StringifyProps(ResultKeys, r)
ParseResult(props) == [key \in {ResultKeys[i] : i \in 1..Len(ResultKeys)} |-> ParseProp(props, key)]

StringifyStocks(rs) == JsonArray([i \in 1..Len(rs) |-> StringifyResult(rs[i])])
ParseStocks(props) ==
    IF HasKey(props, "stocks")
    THEN LET a == Prop(props, "stocks").items IN [i \in 1..Len(a) |-> ParseResult(a[i])]
    ELSE <<>>

\* JSON.stringify(response), as res.json(response) sends it
StringifyResponse(r) ==
    <<[key |-> "stocks", val |-> StringifyStocks(r.stocks)]>>
    \o StringifyProps(<<"totalPortfolioValue", "timestamp">>, r)

\* JSON.stringify of one history entry
StringifyEntry(e) ==
    <<[key |-> "stocks", val |-> StringifyStocks(e.stocks)]>>
    \o StringifyProps(<<"totalPortfolioValue", "timestamp", "id">>, e)

\* JSON.parse of one history entry
ParseEntry(props) ==
    [stocks |-> ParseStocks(props),
     totalPortfolioValue |-> ParseProp(props, "totalPortfolioValue"),
     timestamp |-> ParseProp(props, "timestamp"),
     id |-> ParseProp(props, "id")]

\* The history file: absent, text that is no JSON ("garbage": empty, cut
\* short, ...), or the text of a JSON array, of a JSON object, of null.
FileAbsent == [kind |-> "absent", items |-> <<>>]
FileGarbage == [kind |-> "garbage", items |-> <<>>]

\* a JavaScript array of history entries
Array(es) == [kind |-> "array", items |-> es]

\* JSON.stringify(history, null, 2)
StringifyHistory(h) == [kind |-> h.kind, items |-> [i \in 1..Len(h.items) |-> StringifyEntry(h.items[i])]]

\* JSON.parse(data)
ParseHistory(f) == [kind |-> f.kind, items |-> [i \in 1..Len(f.items) |-> ParseEntry(f.items[i])]]

\* loadHistory(): readFile throws on an absent file, JSON.parse throws on text
\* that is no JSON; both are caught and [] is returned.  Any JSON text is
\* returned as parsed, array or not.
loadHistory(f) ==
    IF f.kind \in {"absent", "garbage"} THEN Array(<<>>) ELSE ParseHistory(f)

\* a write that puts the new entry before what the file holds by then
saveHistoryMerging(f, h, outcome) ==
    CASE outcome = "ok" ->
             StringifyHistory(Array(<<h.items[1]>> \o
                 (IF f.kind \in {"absent", "garbage"} THEN <<>> ELSE ParseHistory(f).items)))
      [] outcome = "cut" -> FileGarbage
      [] OTHER -> f

\* what saveHistory(history) leaves in the file: the text when writeFile
\* succeeds; when it throws, the error is caught and the file is as it was or
\* cut short
saveHistory(f, h, outcome) ==
    CASE outcome = "ok" -> StringifyHistory(h)
      [] outcome = "cut" -> FileGarbage
      [] OTHER -> f

\* ------------------------------------------------------------------------
\* The price provider
\* ------------------------------------------------------------------------

\* What axios.get comes back with: it throws (network error, timeout, status
\* outside 2xx), or it returns response.data with or without a price.
AxiosThrows == [threw |-> TRUE, price |-> Undef]
AxiosReturns(price) == [threw |-> FALSE, price |-> price]

\* getStockPriceFromTwelveData(symbol), given what axios.get came back with
getStockPriceFromTwelveData(reply) ==
    IF reply.threw THEN [ok |-> FALSE, value |-> Undef]
    ELSE IF Truthy(reply.price) THEN [ok |-> TRUE, value |-> parseFloat(reply.price.s)]
    ELSE [ok |-> FALSE, value |-> Undef]

\* getStockPrice(symbol): the price, or the Error thrown after the one attempt
getStockPrice(symbol, reply) ==
    LET first == getStockPriceFromTwelveData(reply)
    IN  IF first.ok THEN [ok |-> TRUE, value |-> first.value, message |-> <<>>]
        ELSE [ok |-> FALSE, value |-> Undef,
              message |-> <<"Unable to fetch price for ">> \o symbol]

\* ------------------------------------------------------------------------
\* POST /api/portfolio: the synchronous parts
\* ------------------------------------------------------------------------

HistoryCap == 50

\* req.body.stocks: undefined, a value that is no array, or an array of items;
\* an item is null or an object with (or without) symbol and quantity
StocksMissing == [kind |-> "undefined", items |-> <<>>]
StocksNoArray == [kind |-> "string", items |-> <<>>]
StocksArray(items) == [kind |-> "array", items |-> items]
NullItem == [t |-> "null", symbol |-> Undef, quantity |-> Undef]
Item(symbol, quantity) == [t |-> "object", symbol |-> symbol, quantity |-> quantity]

\* the validation without its check of the length
InvalidInputNoLength(stocks) == stocks.kind # "array"

\* !stocks || !Array.isArray(stocks) || stocks.length === 0
InvalidInput(stocks) == stocks.kind # "array" \/ Len(stocks.items) = 0

\* the check of an item without quantity <= 0
InvalidItemNoSign(symbol, quantity) == ~Truthy(symbol) \/ ~Truthy(quantity)

\* !symbol || !quantity || quantity <= 0
InvalidItem(symbol, quantity) == ~Truthy(symbol) \/ ~Truthy(quantity) \/ LessEqZero(quantity)

NoResult == [symbol |-> Undef, quantity |-> Undef, currentPrice |-> Undef,
             totalValue |-> Undef, error |-> Undef]

\* { symbol: symbol || 'Unknown', error: 'Invalid symbol or quantity' }
InvalidResult(symbol) ==
    [NoResult EXCEPT !.symbol = IF Truthy(symbol) THEN symbol ELSE Str(<<"Unknown">>),
                     !.error = Str(<<"Invalid symbol or quantity">>)]

\* totalValue without the rounding to 2 decimals
TotalValueUnrounded(currentPrice, quantity) == Times(currentPrice, ToNumber(quantity))

\* parseFloat((currentPrice * quantity).toFixed(2))
TotalValue(currentPrice, quantity) == parseFloat(toFixed2(Times(currentPrice, ToNumber(quantity))))

\* the result with currentPrice left a number
PricedResultRawPrice(symbol, quantity, currentPrice) ==
    [NoResult EXCEPT !.symbol = Str(toUpperCase(symbol.s)),
                     !.quantity = quantity,
                     !.currentPrice = currentPrice,
                     !.totalValue = Str(toFixed2(TotalValue(currentPrice, quantity)))]

\* the result pushed when the price came back
PricedResult(symbol, quantity, currentPrice) ==
    [NoResult EXCEPT !.symbol = Str(toUpperCase(symbol.s)),
                     !.quantity = quantity,
                     !.currentPrice = Str(toFixed2(currentPrice)),
                     !.totalValue = Str(toFixed2(TotalValue(currentPrice, quantity)))]

\* the result pushed when getStockPrice threw
FailedResult(symbol, message) ==
    [NoResult EXCEPT !.symbol = Str(toUpperCase(symbol.s)),
                     !.error = Str(<<"Unable to fetch price: ">> \o message)]

RECURSIVE ProcessStocks(_, _, _, _)
\* The for loop from item i on, as far as it runs without suspending: it ends
\* ("end"), it suspends in getStockPrice for item idx ("lookup"), or a
\* TypeError leaves it ("throw": the item is null and cannot be destructured,
\* or symbol is no string, so that toUpperCase fails in the try block and
\* again in its catch block).
ProcessStocks(items, i, rs, total) ==
    IF i > Len(items) THEN [pc |-> "end", idx |-> i, results |-> rs, total |-> total]
    ELSE IF items[i].t = "null" THEN [pc |-> "throw", idx |-> i, results |-> rs, total |-> total]
    ELSE IF InvalidItem(items[i].symbol, items[i].quantity)
         THEN ProcessStocks(items, i + 1, Append(rs, InvalidResult(items[i].symbol)), total)
    ELSE IF items[i].symbol.t # "string"
         THEN [pc |-> "throw", idx |-> i, results |-> rs, total |-> total]
    ELSE [pc |-> "lookup", idx |-> i, results |-> rs, total |-> total]

\* new Date().toISOString()
toISOString(ms) ==
    <<"1970-01-01T00:00:0">> \o IntDigits(ms \div 1000) \o <<".">>
    \o <<Digit((ms \div 100) % 10), Digit((ms \div 10) % 10), Digit(ms % 10)>> \o <<"Z">>

NoResponse == [stocks |-> <<>>, totalPortfolioValue |-> Undef, timestamp |-> Undef]
NoEntry == [stocks |-> <<>>, totalPortfolioValue |-> Undef, timestamp |-> Undef, id |-> Undef]

\* { stocks: results, totalPortfolioValue: ...toFixed(2), timestamp: ... }
BuildResponse(rs, total, ms) ==
    [stocks |-> rs, totalPortfolioValue |-> Str(toFixed2(total)), timestamp |-> Str(toISOString(ms))]

\* { ...response, id: Date.now() }
BuildEntry(r, ms) ==
    [stocks |-> r.stocks, totalPortfolioValue |-> r.totalPortfolioValue,
     timestamp |-> r.timestamp, id |-> Num(ms * Scale)]

\* push in the place of unshift
UnshiftAtEnd(es, e) == Append(es, e)

\* history.unshift(historyEntry)
Unshift(es, e) == <<e>> \o es

\* the array left as long as it is
SpliceNever(es) == es

\* if (history.length > 50) history.splice(50)
Splice(es) == IF Len(es) > HistoryCap THEN SubSeq(es, 1, HistoryCap) ELSE es

ErrorBody(message) == <<[key |-> "error", val |-> StringifyValue(Str(<<message>>))]>>

\* ------------------------------------------------------------------------
\* State
\* ------------------------------------------------------------------------

\* request handlers that can be in flight at once
Procs == {1, 2}

VARIABLES
    file,                \* portfolio_history.json
    now,                 \* the clock, in milliseconds
    nreq,                \* POST requests received so far
    lastHistory,         \* the last answer of GET /api/history
    pc,                  \* where each handler is: idle, lookup, load, save, done
    stocks,              \* req.body.stocks
    idx,                 \* the item the for loop is at
    results,
    totalPortfolioValue,
    response,
    history,
    historyEntry,
    status,              \* HTTP status sent, 0 when none yet
    sent,                \* the JSON body sent
    lookups,             \* the items getStockPrice was called for, in call order
    fetched,             \* per result, the price getStockPrice returned (else undefined)
    loaded,              \* what loadHistory() returned to the handler
    saved                \* saveHistory: "none" not called, "called", "ok", "failed"

vars == <<file, now, nreq, lastHistory, pc, stocks, idx, results, totalPortfolioValue,
          response, history, historyEntry, status, sent, lookups, fetched, loaded, saved>>

locals == <<stocks, idx, results, totalPortfolioValue, response, history, historyEntry,
            status, sent, lookups, fetched, loaded, saved>>

InitHandlers ==
    /\ now = 0
    /\ nreq = 0
    /\ lastHistory = [status |-> 0, body |-> FileAbsent]
    /\ pc = [p \in Procs |-> "idle"]
    /\ stocks = [p \in Procs |-> StocksMissing]
    /\ idx = [p \in Procs |-> 0]
    /\ results = [p \in Procs |-> <<>>]
    /\ totalPortfolioValue = [p \in Procs |-> Num(0)]
    /\ response = [p \in Procs |-> NoResponse]
    /\ history = [p \in Procs |-> Array(<<>>)]
    /\ historyEntry = [p \in Procs |-> NoEntry]
    /\ status = [p \in Procs |-> 0]
    /\ sent = [p \in Procs |-> <<>>]
    /\ lookups = [p \in Procs |-> <<>>]
    /\ fetched = [p \in Procs |-> <<>>]
    /\ loaded = [p \in Procs |-> Array(<<>>)]
    /\ saved = [p \in Procs |-> "none"]

\* the service starts without a history file
Init == file = FileAbsent /\ InitHandlers

\* ------------------------------------------------------------------------
\* POST /api/portfolio
\* ------------------------------------------------------------------------

\* The handler p after the for loop ran from item i on with rs, total, the
\* prices fs and the lookups ls: suspended in getStockPrice, or, the loop over,
\* the response built and loadHistory() called, or in the outer catch, which
\* answers 500.
Resume(p, items, i, rs, total, fs, ls) ==
    LET r == ProcessStocks(items, i, rs, total)
        fs2 == fs \o [k \in 1..(Len(r.results) - Len(fs)) |-> Undef]
    IN  /\ idx' = [idx EXCEPT ![p] = r.idx]
        /\ results' = [results EXCEPT ![p] = r.results]
        /\ fetched' = [fetched EXCEPT ![p] = fs2]
        /\ totalPortfolioValue' = [totalPortfolioValue EXCEPT ![p] = r.total]
        /\ CASE r.pc = "lookup" ->
                  /\ pc' = [pc EXCEPT ![p] = "lookup"]
                  /\ lookups' = [lookups EXCEPT ![p] = Append(ls, r.idx)]
                  /\ response' = [response EXCEPT ![p] = NoResponse]
                  /\ status' = [status EXCEPT ![p] = 0]
                  /\ sent' = [sent EXCEPT ![p] = <<>>]
             [] r.pc = "end" ->
                  /\ pc' = [pc EXCEPT ![p] = "load"]
                  /\ lookups' = [lookups EXCEPT ![p] = ls]
                  /\ response' = [response EXCEPT ![p] = BuildResponse(r.results, r.total, now)]
                  /\ status' = [status EXCEPT ![p] = 0]
                  /\ sent' = [sent EXCEPT ![p] = <<>>]
             [] OTHER ->
                  /\ pc' = [pc EXCEPT ![p] = "done"]
                  /\ lookups' = [lookups EXCEPT ![p] = ls]
                  /\ response' = [response EXCEPT ![p] = NoResponse]
                  /\ status' = [status EXCEPT ![p] = 500]
                  /\ sent' = [sent EXCEPT ![p] =
                                 ErrorBody("Internal server error. Please try again later.")]

\* A request arrives: validation, then the for loop up to its first await.
PostPortfolio(p, body) ==
    /\ pc[p] = "idle"
    /\ nreq' = nreq + 1
    /\ stocks' = [stocks EXCEPT ![p] = body]
    /\ history' = [history EXCEPT ![p] = Array(<<>>)]
    /\ historyEntry' = [historyEntry EXCEPT ![p] = NoEntry]
    /\ loaded' = [loaded EXCEPT ![p] = Array(<<>>)]
    /\ saved' = [saved EXCEPT ![p] = "none"]
    /\ IF InvalidInput(body)
       THEN /\ pc' = [pc EXCEPT ![p] = "done"]
            /\ status' = [status EXCEPT ![p] = 400]
            /\ sent' = [sent EXCEPT ![p] =
                           ErrorBody("Invalid input. Please provide an array of stocks.")]
            /\ idx' = [idx EXCEPT ![p] = 0]
            /\ results' = [results EXCEPT ![p] = <<>>]
            /\ fetched' = [fetched EXCEPT ![p] = <<>>]
            /\ totalPortfolioValue' = [totalPortfolioValue EXCEPT ![p] = Num(0)]
            /\ response' = [response EXCEPT ![p] = NoResponse]
            /\ lookups' = [lookups EXCEPT ![p] = <<>>]
       ELSE Resume(p, body.items, 1, <<>>, Num(0), <<>>, <<>>)
    /\ UNCHANGED <<file, now, lastHistory>>

\* getStockPrice comes back for item idx: the result is pushed, the total
\* grows by totalValue when there is a price, and the loop goes on.
LookupReturn(p, reply) ==
    /\ pc[p] = "lookup"
    /\ LET item == stocks[p].items[idx[p]]
           got == getStockPrice(toUpperCase(item.symbol.s), reply)
       IN  IF got.ok
           THEN Resume(p, stocks[p].items, idx[p] + 1,
                       Append(results[p], PricedResult(item.symbol, item.quantity, got.value)),
                       Plus(totalPortfolioValue[p], TotalValue(got.value, item.quantity)),
                       Append(fetched[p], got.value), lookups[p])
           ELSE Resume(p, stocks[p].items, idx[p] + 1,
                       Append(results[p], FailedResult(item.symbol, got.message)),
                       totalPortfolioValue[p],
                       Append(fetched[p], Undef), lookups[p])
    /\ UNCHANGED <<file, now, nreq, lastHistory, stocks, history, historyEntry, loaded, saved>>

\* loadHistory() comes back: the entry is built and put first, the array is
\* cut to 50, saveHistory is called.  unshift on a value that is no array is
\* a TypeError, which the outer catch answers with 500.
LoadReturn(p) ==
    /\ pc[p] = "load"
    /\ LET h == loadHistory(file)
           e == BuildEntry(response[p], now)
       IN  /\ loaded' = [loaded EXCEPT ![p] = h]
           /\ historyEntry' = [historyEntry EXCEPT ![p] = e]
           /\ IF h.kind = "array"
              THEN /\ history' = [history EXCEPT ![p] = Array(Splice(Unshift(h.items, e)))]
                   /\ saved' = [saved EXCEPT ![p] = "called"]
                   /\ pc' = [pc EXCEPT ![p] = "save"]
                   /\ UNCHANGED <<status, sent>>
              ELSE /\ history' = [history EXCEPT ![p] = h]
                   /\ pc' = [pc EXCEPT ![p] = "done"]
                   /\ status' = [status EXCEPT ![p] = 500]
                   /\ sent' = [sent EXCEPT ![p] =
                                  ErrorBody("Internal server error. Please try again later.")]
                   /\ UNCHANGED saved
    /\ UNCHANGED <<file, now, nreq, lastHistory, stocks, idx, results, totalPortfolioValue,
                   response, lookups, fetched>>

\* saveHistory() comes back, whatever became of the write: res.json(response).
SaveReturn(p, outcome) ==
    /\ pc[p] = "save"
    /\ file' = saveHistory(file, history[p], outcome)
    /\ saved' = [saved EXCEPT ![p] = IF outcome = "ok" THEN "ok" ELSE "failed"]
    /\ pc' = [pc EXCEPT ![p] = "done"]
    /\ status' = [status EXCEPT ![p] = 200]
    /\ sent' = [sent EXCEPT ![p] = StringifyResponse(response[p])]
    /\ UNCHANGED <<now, nreq, lastHistory, stocks, idx, results, totalPortfolioValue, response,
                   history, historyEntry, lookups, fetched, loaded>>

\* ------------------------------------------------------------------------
\* GET /api/history, and the clock
\* ------------------------------------------------------------------------

\* res.json(await loadHistory())
GetHistory ==
    /\ lastHistory' = [status |-> 200, body |-> StringifyHistory(loadHistory(file))]
    /\ UNCHANGED <<file, now, nreq, pc>>
    /\ UNCHANGED locals

\* a millisecond passes: new Date() and Date.now() read the clock
Tick(limit) ==
    /\ now < limit
    /\ now' = now + 1
    /\ UNCHANGED <<file, nreq, lastHistory, pc>>
    /\ UNCHANGED locals

\* The handler is over; the next request, a millisecond later, is served by a
\* new run of it.
NextRequest(p, limit) ==
    /\ pc[p] = "done"
    /\ nreq < limit
    /\ pc' = [pc EXCEPT ![p] = "idle"]
    /\ now' = now + 1
    /\ UNCHANGED <<file, nreq, lastHistory>>
    /\ UNCHANGED locals

\* ------------------------------------------------------------------------
\* Inputs
\* ------------------------------------------------------------------------

Lower == Str(<<"a", "b">>)

\* the items of a request: valid, invalid in each way the check at line 96
\* tells apart, with a symbol that is no string, and null
ItemKinds ==
    {Item(Lower, Num(2 * Scale)),
     Item(Lower, Num(0)), Item(Lower, Num(0 - Scale)), Item(Lower, Undef),
     Item(Undef, Num(2 * Scale)), Item(Str(<<>>), Num(2 * Scale)),
     Item(Num(123 * Scale), Num(2 * Scale)), Item(Num(123 * Scale), Num(0)),
     NullItem}

ArraysOf(kinds, n) == UNION {[1..k -> kinds] : k \in 0..n}

Bodies == {StocksMissing, StocksNoArray} \cup {StocksArray(a) : a \in ArraysOf(ItemKinds, MaxItems)}

\* what the provider answers
Replies ==
    {AxiosThrows, AxiosReturns(Undef),
     AxiosReturns(Str(<<"1", ".", "0", "0", "2">>)),
     AxiosReturns(Str(<<"2", ".", "5", "0", "6">>)),
     AxiosReturns(Str(<<"a", "b", "c">>))}

WriteOutcomes == {"ok", "cut", "untouched"}

\* ------------------------------------------------------------------------
\* Spec: one request of any shape
\* ------------------------------------------------------------------------

Next ==
    \/ \E body \in Bodies : PostPortfolio(1, body)
    \/ \E reply \in Replies : LookupReturn(1, reply)
    \/ LoadReturn(1)
    \/ \E outcome \in WriteOutcomes : SaveReturn(1, outcome)
    \/ GetHistory
    \/ Tick(MaxClock)

Spec == Init /\ [][Next]_vars

\* ------------------------------------------------------------------------
\* Claims checked under Spec
\* ------------------------------------------------------------------------

\* the `stocks` array of the body p sent, as a client reads it
SentStocks(p) == ParseStocks(sent[p])

\* stocks is a non-empty array
NonEmptyArray(s) == s.kind = "array" /\ s.items # <<>>

\* a value the claims call missing or falsy
Falsy(v) == v.t \in {"undefined", "null"} \/ v = Str(<<>>) \/ v = Num(0) \/ v = NaN

\* an item whose symbol is missing/falsy, whose quantity is missing/falsy, or
\* whose quantity is <= 0
BadItem(item) ==
    /\ item.t = "object"
    /\ \/ Falsy(item.symbol)
       \/ Falsy(item.quantity)
       \/ (item.quantity.t = "number" /\ item.quantity.n <= 0)

\* the symbol of item i stands in result r, as given, uppercased or "Unknown"
ResultOf(r, item) ==
    /\ item.t = "object"
    /\ \/ r.symbol = item.symbol
       \/ (item.symbol.t = "string" /\ r.symbol = Str(toUpperCase(item.symbol.s)))
       \/ (Falsy(item.symbol) /\ r.symbol = Str(<<"Unknown">>))

\* C1: a request whose stocks is a non-empty array is never aborted by one of
\* its items: it is answered 200 with one result per item, result i being the
\* one of item i.
C1_OneResultPerItem ==
    \A p \in Procs :
        (pc[p] = "done" /\ NonEmptyArray(stocks[p])) =>
            /\ status[p] = 200
            /\ Len(SentStocks(p)) = Len(stocks[p].items)
            /\ \A i \in 1..Len(stocks[p].items) : ResultOf(SentStocks(p)[i], stocks[p].items[i])

\* every item is an object whose symbol is a string or missing
TypedItems(s) ==
    \A i \in 1..Len(s.items) :
        s.items[i].t = "object" /\ s.items[i].symbol.t \in {"string", "undefined"}

\* C1 for requests whose items are all objects with a string (or no) symbol:
\* these are answered 200 with one result per item, in order.
C1_TypedItems ==
    \A p \in Procs :
        (pc[p] = "done" /\ NonEmptyArray(stocks[p]) /\ TypedItems(stocks[p])) =>
            /\ status[p] = 200
            /\ Len(SentStocks(p)) = Len(stocks[p].items)
            /\ \A i \in 1..Len(stocks[p].items) : ResultOf(SentStocks(p)[i], stocks[p].items[i])

\* C2: the result of an invalid item is { symbol as given or "Unknown", error:
\* "Invalid symbol or quantity" } without price fields, in memory and in the
\* body sent; getStockPrice is not called for it; it adds nothing to the total.
C2_InvalidItems ==
    \A p \in Procs : \A i \in 1..Len(results[p]) :
        BadItem(stocks[p].items[i]) =>
            /\ results[p][i] =
                   [NoResult EXCEPT
                       !.symbol = IF Falsy(stocks[p].items[i].symbol) THEN Str(<<"Unknown">>)
                                  ELSE stocks[p].items[i].symbol,
                       !.error = Str(<<"Invalid symbol or quantity">>)]
            /\ \A k \in 1..Len(lookups[p]) : lookups[p][k] # i
            /\ fetched[p][i] = Undef
            /\ (\A j \in 1..Len(results[p]) : BadItem(stocks[p].items[j]))
                   => totalPortfolioValue[p] = Num(0)
            /\ status[p] = 200 =>
                   /\ SentStocks(p)[i] = results[p][i]
                   /\ Len(Prop(sent[p], "stocks").items[i]) = 2

\* C2 witness: a request answered 200 whose items are one invalid and one priced
C2_Witness ==
    \E p \in Procs :
        /\ status[p] = 200
        /\ \E i, j \in 1..Len(results[p]) :
               /\ BadItem(stocks[p].items[i])
               /\ fetched[p][j] # Undef
               /\ lookups[p] = <<j>>

RECURSIVE SumOfPriced(_, _, _)
\* the sum of the totalValue of the first n results sent, over those whose
\* lookup came back with a price
SumOfPriced(rs, fs, n) ==
    IF n = 0 THEN Num(0)
    ELSE Plus(SumOfPriced(rs, fs, n - 1),
              IF fs[n] # Undef THEN parseFloat(rs[n].totalValue.s) ELSE Num(0))

\* C3: in a 200 answer totalPortfolioValue is the sum, to 2 decimals, of the
\* totalValue of the items whose lookup succeeded, each being price * quantity
\* to 2 decimals; the other items carry no totalValue; "0.00" when none is priced.
C3_TotalIsSum ==
    \A p \in Procs :
        status[p] = 200 =>
            LET rs == SentStocks(p)
                fs == fetched[p]
                total == ParseProp(sent[p], "totalPortfolioValue")
            IN  /\ Len(rs) = Len(fs)
                /\ total = Str(toFixed2(SumOfPriced(rs, fs, Len(rs))))
                /\ \A i \in 1..Len(rs) :
                       IF fs[i] # Undef
                       THEN rs[i].totalValue =
                                Str(toFixed2(Times(fs[i], stocks[p].items[i].quantity)))
                       ELSE rs[i].totalValue = Undef /\ rs[i].error # Undef
                /\ (\A i \in 1..Len(rs) : fs[i] = Undef) => total = Str(<<"0", ".", "0", "0">>)

\* C3 witness: a 200 answer with two priced items, whose prices need rounding,
\* and one with a failed lookup beside a priced item
C3_Witness ==
    \E p \in Procs :
        /\ status[p] = 200
        /\ Len(fetched[p]) = 2
        /\ fetched[p][1] = Num(1002)
        /\ fetched[p][2] = Num(2506)
        /\ ParseProp(sent[p], "totalPortfolioValue") = Str(<<"7", ".", "0", "1">>)

\* C8: a request whose stocks is missing, no array or empty is answered 400 at
\* once: no lookup, no load, no save, and the history file as it was.
C8_RejectedEarly ==
    [][\A p \in Procs :
          (pc[p] = "idle" /\ pc'[p] # "idle" /\ ~NonEmptyArray(stocks'[p])) =>
              /\ pc'[p] = "done"
              /\ status'[p] = 400
              /\ HasKey(sent'[p], "error")
              /\ lookups'[p] = <<>>
              /\ saved'[p] = "none"
              /\ file' = file]_vars

\* C8 witness: an empty array was answered 400
C8_Witness ==
    \E p \in Procs : status[p] = 400 /\ stocks[p] = StocksArray(<<>>)

\* C10: a request that passes validation calls saveHistory once, after its
\* response is built and before it is sent, whatever became of its items.
C10_AlwaysAppends ==
    \A p \in Procs :
        /\ (pc[p] = "done" /\ NonEmptyArray(stocks[p])) =>
               saved[p] \in {"ok", "failed"} /\ status[p] = 200
        /\ saved[p] = "called" => (response[p] # NoResponse /\ status[p] = 0)

\* C10 for requests whose items are all objects with a string (or no) symbol:
\* saveHistory is called and has returned when the handler is over.
C10_TypedItems ==
    \A p \in Procs :
        (pc[p] = "done" /\ NonEmptyArray(stocks[p]) /\ TypedItems(stocks[p])) =>
            saved[p] \in {"ok", "failed"} /\ status[p] = 200

\* ------------------------------------------------------------------------
\* SpecRace: two requests in flight at once
\* ------------------------------------------------------------------------

RaceBodies == {StocksArray(<<Item(Lower, Num(2 * Scale))>>), StocksArray(<<Item(Lower, Num(0))>>)}

RaceReplies == {AxiosThrows, AxiosReturns(Str(<<"1", ".", "0", "0", "2">>)),
                AxiosReturns(Str(<<"a", "b", "c">>))}

NextRace ==
    \/ \E p \in Procs, body \in RaceBodies : PostPortfolio(p, body)
    \/ \E p \in Procs, reply \in RaceReplies : LookupReturn(p, reply)
    \/ \E p \in Procs : LoadReturn(p)
    \/ \E p \in Procs, outcome \in WriteOutcomes : SaveReturn(p, outcome)
    \/ GetHistory
    \/ Tick(MaxClock)

SpecRace == Init /\ [][NextRace]_vars

\* the first n elements of a sequence
FirstN(es, n) == SubSeq(es, 1, IF Len(es) < n THEN Len(es) ELSE n)

\* handler p's write of the history file succeeds in this step
Appends(p) == pc[p] = "save" /\ saved'[p] = "ok"

\* C5 as stated: after a completed append the new entry is first in the file
\* and the entries the file held follow it in their order.
C5_StoredFollow ==
    [][\A p \in Procs :
          Appends(p) =>
              /\ loadHistory(file').items # <<>>
              /\ loadHistory(file').items[1] = historyEntry[p]
              /\ Tail(loadHistory(file').items) = FirstN(loadHistory(file).items, 49)]_vars

\* C5 amended: after a completed append the new entry is first in the file,
\* and the entries this request had loaded follow it in their order (the
\* first 49 of them); what was stored since it loaded is not kept.
C5_LoadedFollow ==
    [][\A p \in Procs :
          Appends(p) =>
              /\ loadHistory(file').items # <<>>
              /\ loadHistory(file').items[1] = historyEntry[p]
              /\ Tail(loadHistory(file').items) = FirstN(loaded[p].items, 49)]_vars

\* C5 witness: an append put its entry before the one entry it had loaded
C5_Witness ==
    \E p \in Procs :
        /\ pc[p] = "done" /\ saved[p] = "ok"
        /\ Len(loaded[p].items) = 1
        /\ loaded[p].items[1] # historyEntry[p]
        /\ loadHistory(file).items = <<historyEntry[p], loaded[p].items[1]>>

\* the properties of an object's text but id
WithoutId(props) == LET NotId(pr) == pr.key # "id" IN SelectSeq(props, NotId)

\* C6: the entry an append wrote is read back by loadHistory (GET
\* /api/history) with every field as it was appended, it is the response plus
\* a numeric id, its text but for id is the body the caller got, and the
\* entries behind it are read back as they were loaded.
C6_RoundTrip ==
    [][\A p \in Procs :
          Appends(p) =>
              LET back == loadHistory(file')
              IN  /\ back.kind = "array" /\ back.items # <<>>
                  /\ back.items[1] = historyEntry[p]
                  /\ historyEntry[p] = [stocks |-> response[p].stocks,
                                        totalPortfolioValue |-> response[p].totalPortfolioValue,
                                        timestamp |-> response[p].timestamp,
                                        id |-> historyEntry[p].id]
                  /\ historyEntry[p].id.t = "number" /\ ~IsNaN(historyEntry[p].id)
                  /\ WithoutId(file'.items[1]) = sent'[p]
                  /\ StringifyHistory(back) = file'
                  /\ \A k \in 2..Len(back.items) : back.items[k] = loaded[p].items[k - 1]]_vars

\* C6 witness: GET /api/history answered with the entry of a priced request,
\* the entry of an earlier request behind it
C6_Witness ==
    \E p \in Procs :
        /\ pc[p] = "done" /\ saved[p] = "ok" /\ status[p] = 200
        /\ fetched[p] = <<Num(1002)>>
        /\ lastHistory.status = 200
        /\ Len(lastHistory.body.items) = 2
        /\ ParseEntry(lastHistory.body.items[1]) = historyEntry[p]
        /\ historyEntry[p].stocks[1].symbol = Str(<<"A", "B">>)
        /\ historyEntry[p].stocks[1].totalValue = Str(<<"2", ".", "0", "0">>)

\* C9: when two requests have loaded the same history and both have written
\* theirs, the file holds the entry of one of them only, before what they
\* loaded, though both were answered 200.
C9_LostUpdate ==
    \A p, q \in Procs :
        (/\ p # q
         /\ pc[p] = "done" /\ pc[q] = "done"
         /\ saved[p] = "ok" /\ saved[q] = "ok"
         /\ loaded[p] = loaded[q]) =>
            /\ status[p] = 200 /\ status[q] = 200
            /\ Len(loadHistory(file).items) = Len(loaded[p].items) + 1
            /\ \/ loadHistory(file).items = <<historyEntry[p]>> \o loaded[p].items
               \/ loadHistory(file).items = <<historyEntry[q]>> \o loaded[p].items

\* C9 witness: both requests loaded the empty history, both were answered 200
\* after a successful write, and the file holds the entry of q alone
C9_Witness ==
    \E p, q \in Procs :
        /\ p # q
        /\ pc[p] = "done" /\ pc[q] = "done"
        /\ status[p] = 200 /\ status[q] = 200
        /\ saved[p] = "ok" /\ saved[q] = "ok"
        /\ loaded[p] = Array(<<>>) /\ loaded[q] = Array(<<>>)
        /\ historyEntry[p] # historyEntry[q]
        /\ loadHistory(file).items = <<historyEntry[q]>>

\* ------------------------------------------------------------------------
\* SpecCap: one request after the other, until the history is full
\* ------------------------------------------------------------------------

NextCap ==
    \/ PostPortfolio(1, StocksArray(<<Item(Lower, Num(2 * Scale))>>))
    \/ LookupReturn(1, AxiosReturns(Str(<<"1", ".", "0", "0", "2">>)))
    \/ LoadReturn(1)
    \/ SaveReturn(1, "ok")
    \/ NextRequest(1, MaxCapRequests)
    \/ GetHistory

SpecCap == Init /\ [][NextCap]_vars

\* C4: the history file, and so the answer of GET /api/history, never holds
\* more than 50 entries; an append to a history of 50 puts the new entry before
\* the first 49 and drops the last.
C4_AtMostFifty ==
    /\ Len(file.items) <= 50
    /\ Len(loadHistory(file).items) <= 50
    /\ Len(lastHistory.body.items) <= 50
    /\ \A p \in Procs :
           (pc[p] = "done" /\ saved[p] = "ok" /\ Len(loaded[p].items) = 50) =>
               loadHistory(file).items = <<historyEntry[p]>> \o SubSeq(loaded[p].items, 1, 49)

\* C4 witness: an append to a history of 50 whose last entry differs from the
\* one before it
C4_Witness ==
    \E p \in Procs :
        /\ pc[p] = "done" /\ saved[p] = "ok"
        /\ Len(loaded[p].items) = 50
        /\ loaded[p].items[50] # loaded[p].items[49]
        /\ Len(file.items) = 50
        /\ lastHistory.body = file

\* ------------------------------------------------------------------------
\* SpecFile: one request, whatever the history file holds
\* ------------------------------------------------------------------------

OldEntry == BuildEntry(BuildResponse(<<InvalidResult(Undef)>>, Num(0), 0), 0)

FileStates ==
    {FileAbsent, FileGarbage,
     StringifyHistory(Array(<<>>)), StringifyHistory(Array(<<OldEntry>>)),
     [kind |-> "object", items |-> <<>>], [kind |-> "null", items |-> <<>>]}

FileBodies ==
    {StocksArray(<<Item(Lower, Num(2 * Scale))>>),
     StocksArray(<<Item(Lower, Num(0))>>),
     StocksArray(<<Item(Undef, Num(2 * Scale)), Item(Lower, Num(2 * Scale))>>)}

InitFile == file \in FileStates /\ InitHandlers

NextFile ==
    \/ \E body \in FileBodies : PostPortfolio(1, body)
    \/ \E reply \in RaceReplies : LookupReturn(1, reply)
    \/ LoadReturn(1)
    \/ \E outcome \in WriteOutcomes : SaveReturn(1, outcome)
    \/ GetHistory
    \/ Tick(MaxClock)

SpecFile == InitFile /\ [][NextFile]_vars

\* C7: whatever the history file holds and whatever becomes of the write, a
\* request that passes validation is answered 200 with its response: loading
\* yields an array (empty when the file is absent or holds no history) and a
\* failed write is swallowed.
C7_Never500 ==
    \A p \in Procs :
        /\ loaded[p].kind = "array"
        /\ (pc[p] = "done" /\ NonEmptyArray(stocks[p])) =>
               /\ status[p] = 200
               /\ sent[p] = StringifyResponse(response[p])

====
